---------------------------- MODULE Spec2Model ----------------------------
(***************************************************************************)
(* Model of mod_authnz_jwt.c: the two configuration scopes and their       *)
(* directive handlers, get_config_value, check_key_length, create_token,   *)
(* token_check and the two request handlers.                               *)
(*                                                                         *)
(* Representation.                                                         *)
(*  - A C pointer is a sequence of length at most one: <<>> is NULL and    *)
(*    <<v>> points to v.                                                   *)
(*  - Names compared with strcmp (algorithm names, iss/sub/aud, users) are *)
(*    TLA+ strings; strcmp(a, b) == 0 is a = b.                            *)
(*  - A secret is the sequence of its bytes, so strlen is Len.             *)
(*  - A decimal text (a directive argument, a time claim) is the sequence  *)
(*    of its characters, each a one-character string.                      *)
(*  - Time values stay far below INT_MAX, so the int arithmetic of         *)
(*    token_check does not overflow in the model.                          *)
(***************************************************************************)
EXTENDS Integers, Sequences, FiniteSets, TLC

VARIABLES
    dconf,   \* per-directory auth_jwt_config_rec of the protected location
    sconf,   \* per-server auth_jwt_config_rec
    phase,   \* "config" while directives are read, then "serve"
    now,     \* the clock read by time(NULL)
    r,       \* what the last operation left in the request (status, user, headers)
    wire     \* the token last handed to a client by the login handler (NULL if none)

vars == <<dconf, sconf, phase, now, r, wire>>

NULL == <<>>
Ptr(v) == <<v>>
Deref(p) == p[1]

(***************************************************************************)
(* Status codes of httpd.h used by the module.                             *)
(***************************************************************************)
OK == 0
DECLINED == -1
HTTP_BAD_REQUEST == 400
HTTP_UNAUTHORIZED == 401
HTTP_METHOD_NOT_ALLOWED == 405
HTTP_INTERNAL_SERVER_ERROR == 500
KEY_LENGTH_UNSUPPORTED == 2

(***************************************************************************)
(* Bounds of the model.                                                    *)
(***************************************************************************)
MaxKeyLen == 66     \* longest secret tried against check_key_length
MaxTick == 1        \* seconds the clock may advance
MaxDeviations == 2  \* fields in which a presented token departs from a plain valid one

Epoch == 100        \* the clock's first value

(***************************************************************************)
(* Decimal texts: apr_isdigit, atoi and sprintf("%ld").                     *)
(***************************************************************************)
Digits == <<"0", "1", "2", "3", "4", "5", "6", "7", "8", "9">>

apr_isdigit(c) == \E i \in 1..10 : Digits[i] = c

DigitVal(c) == (CHOOSE i \in 1..10 : Digits[i] = c) - 1

\* Value of the longest all-digit prefix of s, read left to right from acc.
RECURSIVE AtoiDigits(_, _)
AtoiDigits(s, acc) ==
    IF s = <<>> \/ ~apr_isdigit(Head(s)) THEN acc
    ELSE AtoiDigits(Tail(s), 10 * acc + DigitVal(Head(s)))

\* atoi(3): optional sign, then digits up to the first non-digit; 0 if none.
atoi(s) ==
    IF s # <<>> /\ Head(s) = "-" THEN 0 - AtoiDigits(Tail(s), 0)
    ELSE IF s # <<>> /\ Head(s) = "+" THEN AtoiDigits(Tail(s), 0)
    ELSE AtoiDigits(s, 0)

RECURSIVE FormatNat(_)
FormatNat(n) ==
    IF n < 10 THEN <<Digits[n + 1]>>
    ELSE Append(FormatNat(n \div 10), Digits[(n % 10) + 1])

\* sprintf(time_buffer_str, "%ld", n)
sprintf_ld(n) == IF n < 0 THEN <<"-">> \o FormatNat(0 - n) ELSE FormatNat(n)

(***************************************************************************)
(* The configuration records.                                              *)
(***************************************************************************)
StringDirectives ==
    {"dir_signature_algorithm", "dir_signature_secret", "dir_iss", "dir_sub", "dir_aud"}
IntDirectives == {"dir_exp_delay", "dir_nbf_delay", "dir_leeway"}
jwt_directive == StringDirectives \cup IntDirectives

\* apr_pcalloc: every pointer NULL, every int 0.
ZeroedConfig ==
    [providers |-> <<>>,
     signature_algorithm |-> NULL, signature_algorithm_set |-> 0,
     signature_secret |-> NULL, signature_secret_set |-> 0,
     exp_delay |-> 0, exp_delay_set |-> 0,
     nbf_delay |-> 0, nbf_delay_set |-> 0,
     leeway |-> 0, leeway_set |-> 0,
     iss |-> NULL, iss_set |-> 0,
     sub |-> NULL, sub_set |-> 0,
     aud |-> NULL, aud_set |-> 0]

create_auth_jwt_dir_config ==
    [ZeroedConfig EXCEPT !.leeway = 0, !.exp_delay = 3600, !.nbf_delay = 0]

create_auth_jwt_config == ZeroedConfig

(***************************************************************************)
(* get_config_value(r, directive): the value a request sees for one        *)
(* directive, NULL when it resolves in neither scope.  A C condition       *)
(* `x_set' on an int is x_set # 0, `p' on a pointer is p # NULL.           *)
(***************************************************************************)
\* case dir_leeway: the directory scope is tested by its value, the server
\* scope by its flag.
ResolveLeeway_ByFlag(dc, sc) ==
    IF dc.leeway_set # 0 THEN Ptr(dc.leeway)
    ELSE IF sc.leeway_set # 0 THEN Ptr(sc.leeway)
    ELSE NULL

ResolveLeeway(dc, sc) ==
    IF dc.leeway # 0 THEN Ptr(dc.leeway)
    ELSE IF sc.leeway_set # 0 THEN Ptr(sc.leeway)
    ELSE NULL

get_config_value(dc, sc, directive) ==
    CASE directive = "dir_signature_algorithm" ->
            IF dc.signature_algorithm_set # 0 /\ dc.signature_algorithm # NULL
            THEN dc.signature_algorithm
            ELSE IF sc.signature_algorithm # NULL THEN sc.signature_algorithm
            ELSE NULL
      [] directive = "dir_signature_secret" ->
            IF dc.signature_secret_set # 0 /\ dc.signature_secret # NULL
            THEN dc.signature_secret
            ELSE IF sc.signature_algorithm_set # 0 /\ sc.signature_secret # NULL
            THEN sc.signature_secret
            ELSE NULL
      [] directive = "dir_iss" ->
            IF dc.iss_set # 0 /\ dc.iss # NULL THEN dc.iss
            ELSE IF sc.iss_set # 0 /\ sc.iss # NULL THEN sc.iss
            ELSE NULL
      [] directive = "dir_aud" ->
            IF dc.aud_set # 0 /\ dc.aud # NULL THEN dc.aud
            ELSE IF sc.iss_set # 0 /\ sc.aud # NULL THEN sc.aud
            ELSE NULL
      [] directive = "dir_sub" ->
            IF dc.sub_set # 0 /\ dc.sub # NULL THEN dc.sub
            ELSE IF sc.sub_set # 0 /\ sc.sub # NULL THEN sc.sub
            ELSE NULL
      [] directive = "dir_exp_delay" ->
            IF dc.exp_delay_set # 0 THEN Ptr(dc.exp_delay)
            ELSE IF sc.exp_delay_set # 0 THEN Ptr(sc.exp_delay)
            ELSE NULL
      [] directive = "dir_nbf_delay" ->
            IF dc.nbf_delay_set # 0 THEN Ptr(dc.nbf_delay)
            ELSE IF sc.nbf_delay_set # 0 THEN Ptr(sc.nbf_delay)
            ELSE NULL
      [] directive = "dir_leeway" -> ResolveLeeway(dc, sc)
      [] OTHER -> NULL

(***************************************************************************)
(* Directive handlers.  cmd.path is NULL in server context; cmd.info is    *)
(* the directive; cmd.value is the argument (a name, a secret, or a        *)
(* decimal text).                                                          *)
(***************************************************************************)
SetParamIn(conf, info, value) ==
    CASE info = "dir_signature_algorithm" ->
            [conf EXCEPT !.signature_algorithm = Ptr(value), !.signature_algorithm_set = 1]
      [] info = "dir_signature_secret" ->
            [conf EXCEPT !.signature_secret = Ptr(value), !.signature_secret_set = 1]
      [] info = "dir_iss" -> [conf EXCEPT !.iss = Ptr(value), !.iss_set = 1]
      [] info = "dir_aud" -> [conf EXCEPT !.aud = Ptr(value), !.aud_set = 1]
      [] info = "dir_sub" -> [conf EXCEPT !.sub = Ptr(value), !.sub_set = 1]
      [] OTHER -> conf

SetIntParamIn(conf, info, value) ==
    CASE info = "dir_exp_delay" ->
            [conf EXCEPT !.exp_delay = atoi(value), !.exp_delay_set = 1]
      [] info = "dir_nbf_delay" ->
            [conf EXCEPT !.nbf_delay = atoi(value), !.nbf_delay_set = 1]
      [] info = "dir_leeway" ->
            [conf EXCEPT !.leeway = atoi(value), !.leeway_set = 1]
      [] OTHER -> conf

\* The loop of set_jwt_int_param over the argument's characters.
AllDigits(value) == \A i \in 1..Len(value) : apr_isdigit(value[i])

\* What the last operation left behind, when it is a directive handler.
DirectiveResult(name, cmd, err) ==
    [handler |-> name, info |-> cmd.info, path |-> cmd.path, value |-> cmd.value,
     error |-> err]

set_jwt_param(cmd) ==
    /\ phase = "config"
    /\ cmd.info \in StringDirectives
    /\ IF cmd.path = NULL
       THEN /\ sconf' = SetParamIn(sconf, cmd.info, cmd.value)
            /\ UNCHANGED dconf
       ELSE /\ dconf' = SetParamIn(dconf, cmd.info, cmd.value)
            /\ UNCHANGED sconf
    /\ r' = DirectiveResult("set_jwt_param", cmd, NULL)
    /\ UNCHANGED <<phase, now, wire>>

set_jwt_int_param(cmd) ==
    /\ phase = "config"
    /\ cmd.info \in IntDirectives
    /\ IF ~AllDigits(cmd.value)
       THEN /\ r' = DirectiveResult("set_jwt_int_param", cmd, Ptr("Argument must be numeric!"))
            /\ UNCHANGED <<dconf, sconf>>
       ELSE /\ r' = DirectiveResult("set_jwt_int_param", cmd, NULL)
            /\ IF cmd.path = NULL
               THEN /\ sconf' = SetIntParamIn(sconf, cmd.info, cmd.value)
                    /\ UNCHANGED dconf
               ELSE /\ dconf' = SetIntParamIn(dconf, cmd.info, cmd.value)
                    /\ UNCHANGED sconf
    /\ UNCHANGED <<phase, now, wire>>

\* add_authn_provider: AuthJWTProvider appends a provider to the directory
\* scope's list (the names offered are registered providers with a
\* check_password function).
add_authn_provider(arg) ==
    /\ phase = "config"
    /\ dconf' = [dconf EXCEPT !.providers = Append(dconf.providers, arg)]
    /\ r' = [handler |-> "add_authn_provider", value |-> arg, error |-> NULL]
    /\ UNCHANGED <<sconf, phase, now, wire>>

\* The configuration phase ends; the scopes are read-only afterwards.
ServerStart ==
    /\ phase = "config"
    /\ phase' = "serve"
    /\ r' = [handler |-> "none"]
    /\ UNCHANGED <<dconf, sconf, now, wire>>

\* No request is being handled.
Idle == r = [handler |-> "none"]

\* time(NULL) returns a later value; a request is handled within one second.
Tick ==
    /\ phase = "serve"
    /\ Idle
    /\ now < Epoch + MaxTick
    /\ now' = now + 1
    /\ UNCHANGED <<dconf, sconf, phase, r, wire>>

Init ==
    /\ dconf = create_auth_jwt_dir_config
    /\ sconf = create_auth_jwt_config
    /\ phase = "config"
    /\ now = Epoch
    /\ r = [handler |-> "none"]
    /\ wire = NULL

(***************************************************************************)
(* check_key_length(r, key, algorithm), for a non-NULL algorithm.          *)
(***************************************************************************)
strlen(s) == Len(s)

check_key_length_atleast(key, algorithm) ==
    LET key_len == strlen(key) IN
    IF algorithm = "HS512"
    THEN IF key_len < 64 THEN HTTP_INTERNAL_SERVER_ERROR ELSE OK
    ELSE IF algorithm = "HS384"
    THEN IF key_len # 32 THEN HTTP_INTERNAL_SERVER_ERROR ELSE OK
    ELSE IF algorithm = "HS256"
    THEN IF key_len # 32 THEN HTTP_INTERNAL_SERVER_ERROR ELSE OK
    ELSE KEY_LENGTH_UNSUPPORTED

check_key_length(key, algorithm) ==
    LET key_len == strlen(key) IN
    IF algorithm = "HS512"
    THEN IF key_len # 64 THEN HTTP_INTERNAL_SERVER_ERROR ELSE OK
    ELSE IF algorithm = "HS384"
    THEN IF key_len # 32 THEN HTTP_INTERNAL_SERVER_ERROR ELSE OK
    ELSE IF algorithm = "HS256"
    THEN IF key_len # 32 THEN HTTP_INTERNAL_SERVER_ERROR ELSE OK
    ELSE KEY_LENGTH_UNSUPPORTED

(***************************************************************************)
(* Tokens.  libjwt is used as an opaque sign/verify capability:            *)
(*  - a jwt_t is its algorithm tag, the key bytes given to jwt_set_alg and *)
(*    its grants (each a pointer to the claim's text, NULL when absent);   *)
(*  - a token on the wire carries the algorithm tag of its header, its     *)
(*    grants, and `signkey', the HMAC key its signature was made with;     *)
(*  - HMAC pads a key shorter than the hash block with zero bytes, so two  *)
(*    keys that differ only in trailing zero bytes sign alike.             *)
(***************************************************************************)
ClaimNames == {"iss", "aud", "sub", "exp", "nbf", "iat", "user"}

NoGrants == [c \in ClaimNames |-> NULL]

\* jwt_new: no algorithm, no key, no grants.
token_new == [alg |-> "none", key |-> NULL, grants |-> NoGrants]

\* jwt_add_grant(jwt, claim, val)
token_add_claim(jwt, claim, val) == [jwt EXCEPT !.grants[claim] = Ptr(val)]

\* jwt_get_grant(jwt, claim)
token_get_claim(jwt, claim) == jwt.grants[claim]

\* The len bytes memcpy reads at key: the string, its terminating zero, and
\* then whatever the memory after it holds (`beyond').
BytesAt(key, len, beyond) == SubSeq(key \o <<0>> \o beyond, 1, len)

\* jwt_set_alg(jwt, alg, key, len)
token_set_alg(jwt, alg, key, len, beyond) ==
    [jwt EXCEPT !.alg = alg, !.key = Ptr(BytesAt(key, len, beyond))]

RECURSIVE StripZeros(_)
StripZeros(k) ==
    IF k # <<>> /\ k[Len(k)] = 0 THEN StripZeros(SubSeq(k, 1, Len(k) - 1)) ELSE k

\* The key as HMAC uses it (keys here are never longer than a hash block).
HmacKey(k) == StripZeros(k)

\* jwt_encode_str(jwt)
token_encode_str(jwt) ==
    [form |-> "jwt", alg |-> jwt.alg, grants |-> jwt.grants,
     signkey |-> IF jwt.alg = "none" THEN <<>> ELSE HmacKey(Deref(jwt.key))]

\* jwt_decode(jwt, token, key, key_len): nonzero for a malformed token or a
\* signature not made with key; whether an unsigned "none" token decodes
\* depends on the libjwt linked (accepts_none).
jwt_decode(token, key, key_len, accepts_none) ==
    IF token.form # "jwt" THEN [res |-> 22, jwt |-> NULL]
    ELSE IF token.alg = "none"
    THEN IF accepts_none
         THEN [res |-> 0, jwt |-> Ptr([alg |-> "none", key |-> NULL, grants |-> token.grants])]
         ELSE [res |-> 22, jwt |-> NULL]
    ELSE IF token.signkey = HmacKey(SubSeq(key, 1, key_len))
    THEN [res |-> 0, jwt |-> Ptr([alg |-> token.alg, key |-> Ptr(key), grants |-> token.grants])]
    ELSE [res |-> 22, jwt |-> NULL]

(***************************************************************************)
(* token_check(r, jwt, token, key).  `t' is what time(NULL) returns; `ub'  *)
(* fixes the outcome of each undefined operation the function can          *)
(* perform: strcmp on a NULL algorithm inside check_key_length             *)
(* (ub.strcmp_null) and the read through the NULL pointer when leeway     *)
(* resolves in neither scope (ub.null_leeway); each is a fault (the        *)
(* process is killed) or some value.                                       *)
(***************************************************************************)
Challenge(error, description) ==
    Ptr([realm |-> "realm", error |-> Ptr(error), error_description |-> Ptr(description)])

\* token_check returning rv at `stage' after running `stages'.
CheckReturn(rv, header, jwt, leeway, stages) ==
    [rv |-> rv, fault |-> FALSE, www_authenticate |-> header, jwt |-> jwt,
     leeway |-> leeway, stages |-> stages]

CheckFault(jwt, stages) ==
    [rv |-> OK, fault |-> TRUE, www_authenticate |-> NULL, jwt |-> jwt,
     leeway |-> NULL, stages |-> stages]

InvalidToken(description, jwt, leeway, stages) ==
    CheckReturn(HTTP_UNAUTHORIZED, Challenge("invalid_token", description), jwt, leeway, stages)

\* exp_int + leeway < now
Expired_NoLeeway(exp_int, leeway, t) == exp_int < t

Expired(exp_int, leeway, t) == exp_int + leeway < t

\* nbf_int - leeway > now
TooEarly_NoLeeway(nbf_int, leeway, t) == nbf_int > t

TooEarly(nbf_int, leeway, t) == nbf_int - leeway > t

\* Lines 795-832: the exp and nbf checks and the final return.
TimeChecks(jwt, leeway, t, stages) ==
    LET exp_str == token_get_claim(Deref(jwt), "exp")
        nbf_str == token_get_claim(Deref(jwt), "nbf")
        at_exp == Append(stages, "exp")
        at_nbf == Append(at_exp, "nbf")
    IN  IF exp_str = NULL
        THEN InvalidToken("Expiration is missing in token", jwt, Ptr(leeway), at_exp)
        ELSE IF Expired(atoi(Deref(exp_str)), leeway, t)
        THEN InvalidToken("Token expired", jwt, Ptr(leeway), at_exp)
        ELSE IF nbf_str # NULL /\ TooEarly(atoi(Deref(nbf_str)), leeway, t)
        THEN InvalidToken("Token can't be processed now due to nbf field", jwt, Ptr(leeway), at_nbf)
        ELSE CheckReturn(OK, NULL, jwt, Ptr(leeway), at_nbf)

\* One of the iss / aud / sub comparisons.
Mismatch_ClaimRequired(config, to_check) ==
    config # NULL /\ (to_check = NULL \/ Deref(config) # Deref(to_check))

Mismatch(config, to_check) ==
    config # NULL /\ to_check # NULL /\ Deref(config) # Deref(to_check)

\* Lines 768-793 with the audience compared before the issuer.
ClaimChecks_AudienceFirst(dc, sc, jwt, leeway, t, stages) ==
    LET iss_config == get_config_value(dc, sc, "dir_iss")
        aud_config == get_config_value(dc, sc, "dir_aud")
        sub_config == get_config_value(dc, sc, "dir_sub")
        at_iss == Append(stages, "iss")
        at_aud == Append(at_iss, "aud")
        at_sub == Append(at_aud, "sub")
    IN  IF Mismatch(aud_config, token_get_claim(Deref(jwt), "aud"))
        THEN InvalidToken("Audience is not valid", jwt, Ptr(leeway), at_aud)
        ELSE IF Mismatch(iss_config, token_get_claim(Deref(jwt), "iss"))
        THEN InvalidToken("Issuer is not valid", jwt, Ptr(leeway), at_iss)
        ELSE IF Mismatch(sub_config, token_get_claim(Deref(jwt), "sub"))
        THEN InvalidToken("Subject is not valid", jwt, Ptr(leeway), at_sub)
        ELSE TimeChecks(jwt, leeway, t, at_sub)

\* Lines 768-793: the iss, aud and sub checks, then the time checks.
ClaimChecks(dc, sc, jwt, leeway, t, stages) ==
    LET iss_config == get_config_value(dc, sc, "dir_iss")
        aud_config == get_config_value(dc, sc, "dir_aud")
        sub_config == get_config_value(dc, sc, "dir_sub")
        at_iss == Append(stages, "iss")
        at_aud == Append(at_iss, "aud")
        at_sub == Append(at_aud, "sub")
    IN  IF Mismatch(iss_config, token_get_claim(Deref(jwt), "iss"))
        THEN InvalidToken("Issuer is not valid", jwt, Ptr(leeway), at_iss)
        ELSE IF Mismatch(aud_config, token_get_claim(Deref(jwt), "aud"))
        THEN InvalidToken("Audience is not valid", jwt, Ptr(leeway), at_aud)
        ELSE IF Mismatch(sub_config, token_get_claim(Deref(jwt), "sub"))
        THEN InvalidToken("Subject is not valid", jwt, Ptr(leeway), at_sub)
        ELSE TimeChecks(jwt, leeway, t, at_sub)

\* *jwt && jwt_get_alg(*jwt) == JWT_ALG_NONE
AlgNone_Unchecked(jwt) == FALSE

AlgNone(jwt) == jwt # NULL /\ Deref(jwt).alg = "none"

Faulting == [fault |-> TRUE]
Yielding(v) == [fault |-> FALSE, value |-> v]

\* Line 738: check_key_length(r, key, signature_algorithm), whose strcmp on
\* a NULL algorithm is undefined.
KeyCheck_Skipped(key, signature_algorithm, ub) ==
    IF signature_algorithm = NULL THEN ub.strcmp_null ELSE Yielding(OK)

KeyCheck(key, signature_algorithm, ub) ==
    IF signature_algorithm = NULL THEN ub.strcmp_null
    ELSE Yielding(check_key_length(key, Deref(signature_algorithm)))

token_check(dc, sc, token, key, t, ub) ==
    LET signature_algorithm == get_config_value(dc, sc, "dir_signature_algorithm")
        key_check == KeyCheck(key, signature_algorithm, ub)
        decoded == jwt_decode(token, key, strlen(key), ub.accepts_none)
        leeway_ptr == get_config_value(dc, sc, "dir_leeway")
        leeway == IF leeway_ptr = NULL THEN ub.null_leeway ELSE Yielding(Deref(leeway_ptr))
        at_key == <<"check_key_length">>
        at_decode == Append(at_key, "jwt_decode")
        at_none == Append(at_decode, "alg_none")
        at_config == Append(at_none, "config")
    IN  IF key_check.fault THEN CheckFault(NULL, at_key)
        ELSE IF key_check.value # OK
        THEN CheckReturn(HTTP_INTERNAL_SERVER_ERROR, NULL, NULL, NULL, at_key)
        ELSE IF decoded.res # 0
        THEN InvalidToken("Token is malformed", decoded.jwt, NULL, at_decode)
        ELSE IF AlgNone(decoded.jwt)
        THEN InvalidToken("Token is malformed", decoded.jwt, NULL, at_none)
        ELSE IF leeway.fault THEN CheckFault(decoded.jwt, at_config)
        ELSE ClaimChecks(dc, sc, decoded.jwt, leeway.value, t, at_config)

(***************************************************************************)
(* create_token(r, token_str, username).  `beyond' is what the memory      *)
(* after the secret's terminating zero holds, read when token_set_alg is   *)
(* given a length greater than strlen(secret) + 1.                         *)
(***************************************************************************)
\* create_token returning rv after making `calls', the calls into
\* check_key_length and libjwt's signing functions, in order.
Created(rv, token_str, calls) == [rv |-> rv, token_str |-> token_str, calls |-> calls]

\* Lines 499-507: the algorithm tag and key length given to token_set_alg.
SetAlgorithm(token, signature_algorithm, signature_secret, beyond) ==
    IF signature_algorithm = "HS512"
    THEN Ptr(token_set_alg(token, "HS512", signature_secret, 64, beyond))
    ELSE IF signature_algorithm = "HS384"
    THEN Ptr(token_set_alg(token, "HS256", signature_secret, 48, beyond))
    ELSE IF signature_algorithm = "HS256"
    THEN Ptr(token_set_alg(token, "HS256", signature_secret, 32, beyond))
    ELSE NULL

\* exp_delay_ptr && *exp_delay_ptr >= 0, and the same test of nbf_delay_ptr.
DelayApplies_WhenPositive(delay_ptr) == delay_ptr # NULL /\ Deref(delay_ptr) > 0

DelayApplies(delay_ptr) == delay_ptr # NULL /\ Deref(delay_ptr) >= 0

\* Lines 509-546: the claims added to the token.
AddClaims(dc, sc, token, username, t) ==
    LET iss == get_config_value(dc, sc, "dir_iss")
        aud == get_config_value(dc, sc, "dir_aud")
        sub == get_config_value(dc, sc, "dir_sub")
        exp_delay_ptr == get_config_value(dc, sc, "dir_exp_delay")
        nbf_delay_ptr == get_config_value(dc, sc, "dir_nbf_delay")
        with_exp ==
            IF DelayApplies(exp_delay_ptr)
            THEN token_add_claim(token, "exp", sprintf_ld(t + Deref(exp_delay_ptr)))
            ELSE token
        with_nbf ==
            IF DelayApplies(nbf_delay_ptr)
            THEN token_add_claim(with_exp, "nbf", sprintf_ld(t + Deref(nbf_delay_ptr)))
            ELSE with_exp
        with_iat == token_add_claim(with_nbf, "iat", sprintf_ld(t))
        with_iss == IF iss # NULL THEN token_add_claim(with_iat, "iss", Deref(iss)) ELSE with_iat
        with_sub == IF sub # NULL THEN token_add_claim(with_iss, "sub", Deref(sub)) ELSE with_iss
        with_aud == IF aud # NULL THEN token_add_claim(with_sub, "aud", Deref(aud)) ELSE with_sub
    IN  token_add_claim(with_aud, "user", username)

\* The body of create_token with the check_key_length test left out.
create_token_nokeycheck(dc, sc, username, t, beyond) ==
    LET signature_secret == get_config_value(dc, sc, "dir_signature_secret")
        signature_algorithm == get_config_value(dc, sc, "dir_signature_algorithm")
        token == SetAlgorithm(token_new, Deref(signature_algorithm),
                              Deref(signature_secret), beyond)
    IN  IF signature_secret = NULL THEN Created(HTTP_INTERNAL_SERVER_ERROR, NULL, <<>>)
        ELSE IF signature_algorithm = NULL
        THEN Created(HTTP_INTERNAL_SERVER_ERROR, NULL, <<>>)
        ELSE IF token = NULL
        THEN Created(HTTP_INTERNAL_SERVER_ERROR, NULL, <<>>)
        ELSE Created(OK, Ptr(token_encode_str(AddClaims(dc, sc, Deref(token), username, t))),
                     <<"token_set_alg", "token_encode_str">>)

create_token(dc, sc, username, t, beyond) ==
    LET signature_secret == get_config_value(dc, sc, "dir_signature_secret")
        signature_algorithm == get_config_value(dc, sc, "dir_signature_algorithm")
        token == SetAlgorithm(token_new, Deref(signature_algorithm),
                              Deref(signature_secret), beyond)
    IN  IF signature_secret = NULL THEN Created(HTTP_INTERNAL_SERVER_ERROR, NULL, <<>>)
        ELSE IF signature_algorithm = NULL
        THEN Created(HTTP_INTERNAL_SERVER_ERROR, NULL, <<>>)
        ELSE IF check_key_length(Deref(signature_secret), Deref(signature_algorithm)) # OK
        THEN Created(HTTP_INTERNAL_SERVER_ERROR, NULL, <<"check_key_length">>)
        ELSE IF token = NULL
        THEN Created(HTTP_INTERNAL_SERVER_ERROR, NULL, <<"check_key_length">>)
        ELSE Created(OK, Ptr(token_encode_str(AddClaims(dc, sc, Deref(token), username, t))),
                     <<"check_key_length", "token_set_alg", "token_encode_str">>)

(***************************************************************************)
(* check_authn(r, username, password).  verdicts[i] is what the i-th       *)
(* provider's check_password returns if it is called.                      *)
(***************************************************************************)
authn_status == {"AUTH_DENIED", "AUTH_GRANTED", "AUTH_USER_NOT_FOUND", "AUTH_GENERAL_ERROR"}

\* authn_result != AUTH_USER_NOT_FOUND: the verdict ends the loop.
Decisive_OnlyGranted(authn_result) == authn_result = "AUTH_GRANTED"

Decisive(authn_result) == authn_result # "AUTH_USER_NOT_FOUND"

\* current_provider = current_provider->next
Following_Skipping(i) == i + 2

Following(i) == i + 1

\* !username || !password
NoCredentials(username, password) == username = NULL \/ password = NULL

\* Lines 555-588: the loop from the i-th provider on; calls are the providers
\* whose check_password has been called, note the provider-name note.
RECURSIVE ProviderLoop(_, _, _, _, _, _)
ProviderLoop(providers, i, username, password, verdicts, calls) ==
    IF i > Len(providers)
    THEN [authn_result |-> "AUTH_GENERAL_ERROR", calls |-> calls, note |-> NULL]
    ELSE IF NoCredentials(username, password)
    THEN [authn_result |-> "AUTH_USER_NOT_FOUND", calls |-> calls, note |-> Ptr(providers[i])]
    ELSE IF Decisive(verdicts[i])
    THEN [authn_result |-> verdicts[i], calls |-> Append(calls, providers[i]), note |-> NULL]
    ELSE IF Following(i) > Len(providers)
    THEN [authn_result |-> verdicts[i], calls |-> Append(calls, providers[i]), note |-> NULL]
    ELSE ProviderLoop(providers, Following(i), username, password, verdicts,
                      Append(calls, providers[i]))

\* Lines 590-619: the status of a verdict.
ReturnCode_NotFoundAsError(authn_result) ==
    IF authn_result # "AUTH_GRANTED"
    THEN CASE authn_result = "AUTH_DENIED" -> HTTP_UNAUTHORIZED
           [] OTHER -> HTTP_INTERNAL_SERVER_ERROR
    ELSE OK

ReturnCode(authn_result) ==
    IF authn_result # "AUTH_GRANTED"
    THEN CASE authn_result = "AUTH_DENIED" -> HTTP_UNAUTHORIZED
           [] authn_result = "AUTH_USER_NOT_FOUND" -> HTTP_UNAUTHORIZED
           [] OTHER -> HTTP_INTERNAL_SERVER_ERROR
    ELSE OK

check_authn(conf, username, password, verdicts) ==
    LET loop == ProviderLoop(conf.providers, 1, username, password, verdicts, <<>>)
    IN  [rv |-> ReturnCode(loop.authn_result), authn_result |-> loop.authn_result,
         calls |-> loop.calls, note |-> loop.note]

(***************************************************************************)
(* auth_jwt_login_handler(r).  req carries r->handler, the method, the     *)
(* result of ap_parse_form_data and the form's user and password fields    *)
(* (NULL when the form has no such field).  sent_values is not             *)
(* initialised: a field the form lacks leaves stack[i], whatever the stack *)
(* held, in sent_values[i].                                                *)
(***************************************************************************)
LoginResponse(req, status, user, body, authn, created) ==
    [handler |-> "auth_jwt_login_handler", req |-> req, status |-> status,
     fault |-> FALSE, user |-> user, body |-> body, authn |-> authn, created |-> created]

\* Line 456: rv == OK after check_authn.
AuthnPassed_UnlessError(rv) == rv # HTTP_INTERNAL_SERVER_ERROR

AuthnPassed(rv) == rv = OK

auth_jwt_login_handler(dc, sc, req, t, verdicts, stack, beyond) ==
    LET sent_user == IF req.user # NULL THEN req.user ELSE stack[1]
        sent_password == IF req.password # NULL THEN req.password ELSE stack[2]
        authn == check_authn(dc, sent_user, sent_password, verdicts)
        created == create_token(dc, sc, Deref(sent_user), t, beyond)
    IN  IF req.handler = NULL \/ Deref(req.handler) # "jwt-login-handler"
        THEN LoginResponse(req, DECLINED, NULL, NULL, NULL, NULL)
        ELSE IF req.method # "POST"
        THEN LoginResponse(req, HTTP_METHOD_NOT_ALLOWED, NULL, NULL, NULL, NULL)
        ELSE IF req.parse # OK
        THEN LoginResponse(req, req.parse, NULL, NULL, NULL, NULL)
        ELSE IF sent_user = NULL \/ sent_password = NULL
        THEN LoginResponse(req, HTTP_UNAUTHORIZED, NULL, NULL, NULL, NULL)
        ELSE IF ~AuthnPassed(authn.rv)
        THEN LoginResponse(req, authn.rv, sent_user, NULL, Ptr(authn), NULL)
        ELSE IF created.rv # OK
        THEN LoginResponse(req, created.rv, sent_user, NULL, Ptr(authn), Ptr(created))
        ELSE LoginResponse(req, OK, sent_user, created.token_str, Ptr(authn), Ptr(created))

(***************************************************************************)
(* auth_jwt_authn_with_token(r).  req is what the request carries:         *)
(* ap_auth_type(r), ap_auth_name(r) and the Authorization header, NULL or  *)
(* its first seven characters (scheme) and the text after them (token,     *)
(* NULL when the header is no longer than seven characters).               *)
(***************************************************************************)
Response(req, status, user, header, check) ==
    [handler |-> "auth_jwt_authn_with_token", req |-> req, status |-> status,
     fault |-> FALSE, user |-> user, www_authenticate |-> header, check |-> check]

\* Lines 672-686: what the handler makes of token_check's result rv.
Identify_AnyUser(req, rv) ==
    IF rv.fault
    THEN [Response(req, OK, NULL, NULL, Ptr(rv)) EXCEPT !.fault = TRUE]
    ELSE IF rv.rv = OK
    THEN Response(req, OK, token_get_claim(Deref(rv.jwt), "user"), NULL, Ptr(rv))
    ELSE Response(req, rv.rv, NULL, rv.www_authenticate, Ptr(rv))

Identify(req, rv) ==
    LET maybe_user == token_get_claim(Deref(rv.jwt), "user")
    IN  IF rv.fault
        THEN [Response(req, OK, NULL, NULL, Ptr(rv)) EXCEPT !.fault = TRUE]
        ELSE IF rv.rv = OK
        THEN IF maybe_user = NULL
             THEN Response(req, HTTP_UNAUTHORIZED, NULL,
                           Challenge("invalid_token", "Username was not in token"),
                           Ptr(rv))
             ELSE Response(req, OK, maybe_user, NULL, Ptr(rv))
        ELSE Response(req, rv.rv, NULL, rv.www_authenticate, Ptr(rv))

\* header_len > 7 && !strncmp(authorization_header, "Bearer ", 7)
BearerHeader_AnyScheme(header) == header.token # NULL

BearerHeader(header) == header.token # NULL /\ header.scheme = "Bearer "

auth_jwt_authn_with_token(dc, sc, req, t, ub) ==
    LET signature_secret == get_config_value(dc, sc, "dir_signature_secret")
        authorization_header == req.authorization
        rv == token_check(dc, sc, Deref(Deref(authorization_header).token),
                          Deref(signature_secret), t, ub)
    IN  IF req.auth_type = NULL \/ Deref(req.auth_type) # "jwt"
        THEN Response(req, DECLINED, NULL, NULL, NULL)
        ELSE IF req.auth_name = NULL
        THEN Response(req, HTTP_INTERNAL_SERVER_ERROR, NULL, NULL, NULL)
        ELSE IF signature_secret = NULL
        THEN Response(req, HTTP_INTERNAL_SERVER_ERROR, NULL, NULL, NULL)
        ELSE IF authorization_header = NULL
        THEN Response(req, HTTP_UNAUTHORIZED, NULL,
                      Ptr([realm |-> Deref(req.auth_name), error |-> NULL,
                           error_description |-> NULL]), NULL)
        ELSE IF BearerHeader(Deref(authorization_header))
        THEN Identify(req, rv)
        ELSE Response(req, HTTP_BAD_REQUEST, NULL,
                      Challenge("invalid_request", "Authentication type must be Bearer"),
                      NULL)

\* The outcomes an undefined operation can have: the process faults, or the
\* operation yields one of these values.
StrcmpNullOutcomes ==
    {Faulting} \cup {Yielding(v) : v \in {OK, HTTP_INTERNAL_SERVER_ERROR, KEY_LENGTH_UNSUPPORTED}}

NullLeewayOutcomes == {Faulting} \cup {Yielding(v) : v \in {-1, 0, 3}}

\* The choices that can matter to a request under the configuration.
UBChoices(dc, sc) ==
    [accepts_none : BOOLEAN,
     strcmp_null : IF get_config_value(dc, sc, "dir_signature_algorithm") = NULL
                   THEN StrcmpNullOutcomes ELSE {Faulting},
     null_leeway : IF get_config_value(dc, sc, "dir_leeway") = NULL
                   THEN NullLeewayOutcomes ELSE {Faulting}]

\* A protected-resource request is handled.
AuthnWithToken(req) ==
    /\ phase = "serve"
    /\ Idle
    /\ \E ub \in UBChoices(dconf, sconf) :
          r' = auth_jwt_authn_with_token(dconf, sconf, req, now, ub)
    /\ UNCHANGED <<dconf, sconf, phase, now, wire>>

\* The request is over; its pool, and with it r, is gone.
RequestDone ==
    /\ phase = "serve"
    /\ ~Idle
    /\ r' = [handler |-> "none"]
    /\ UNCHANGED <<dconf, sconf, phase, now, wire>>

\* What an uninitialised sent_values slot can hold, and what the memory
\* after a secret can hold.
StackContents == {NULL, Ptr("<garbage>")}
Beyond == {[i \in 1..64 |-> 0], [i \in 1..64 |-> 7]}

\* The choices that can matter to a login: the stack where the form lacks a
\* field, the memory after the secret where more than the secret is read.
StackFor(req) ==
    (IF req.user = NULL THEN StackContents ELSE {NULL})
        \X (IF req.password = NULL THEN StackContents ELSE {NULL})

BeyondFor(dc, sc) ==
    IF get_config_value(dc, sc, "dir_signature_algorithm") = Ptr("HS384")
    THEN Beyond ELSE {[i \in 1..64 |-> 0]}

\* A login request is handled; a token written to the response reaches the
\* client, with the user it was issued for and the time of issue.
Login(req) ==
    /\ phase = "serve"
    /\ Idle
    /\ \E verdicts \in [1..Len(dconf.providers) -> authn_status],
          stack \in StackFor(req), beyond \in BeyondFor(dconf, sconf) :
          LET response ==
                  auth_jwt_login_handler(dconf, sconf, req, now, verdicts, stack, beyond)
          IN  /\ r' = response
              /\ wire' = IF response.status = OK /\ response.body # NULL
                         THEN Ptr([token |-> Deref(response.body),
                                   user |-> Deref(response.user), at |-> now])
                         ELSE wire
    /\ UNCHANGED <<dconf, sconf, phase, now>>

(***************************************************************************)
(* Inputs.                                                                 *)
(***************************************************************************)
\* A secret of n bytes, each byte c (a C string holds no zero byte).
Secret(c, n) == [i \in 1..n |-> c]

AlgorithmNames == {"HS256", "HS384", "HS512", "none", "RS256", "hs256", ""}

Location == Ptr("/protected")   \* cmd->path inside a <Location>; NULL at server level

Line(path, info, value) == [path |-> path, info |-> info, value |-> value]

\* Number of directives currently set in a scope, and the bound on what an
\* administrator writes.
NumSet(conf) ==
    conf.signature_algorithm_set + conf.signature_secret_set + conf.exp_delay_set
    + conf.nbf_delay_set + conf.leeway_set + conf.iss_set + conf.sub_set + conf.aud_set

MaxDirectives == 3

UnderDirectiveBound == NumSet(dconf) + NumSet(sconf) < MaxDirectives

\* The handler the auth_jwt_cmds table gives a directive.
Directive(cmd) ==
    \/ set_jwt_param(cmd)
    \/ set_jwt_int_param(cmd)

Text(n) == sprintf_ld(n)

\* A request for a jwt-protected path carrying a token signed with the
\* configured secret, not yet expired, with a user and no other claim.
PlainRequest ==
    [auth_type |-> Ptr("jwt"), auth_name |-> Ptr("realm"), scheme |-> Ptr("Bearer "),
     rest |-> TRUE, form |-> "jwt", alg |-> "HS256", signkey |-> Secret(1, 32),
     iss |-> NULL, aud |-> NULL, sub |-> NULL,
     exp |-> Ptr(Text(Epoch + MaxTick + 1)), nbf |-> NULL, iat |-> Ptr(Text(Epoch)),
     user |-> Ptr("alice")]

\* The request record of a flat field assignment.
Request(x) ==
    [auth_type |-> x.auth_type, auth_name |-> x.auth_name,
     authorization |->
        IF x.scheme = NULL THEN NULL
        ELSE Ptr([scheme |-> Deref(x.scheme),
                  token |-> IF ~x.rest THEN NULL
                            ELSE IF x.form # "jwt" THEN Ptr([form |-> x.form])
                            ELSE Ptr([form |-> "jwt", alg |-> x.alg,
                                      grants |-> [c \in ClaimNames |-> x[c]],
                                      signkey |-> IF x.alg = "none" THEN <<>>
                                                  ELSE x.signkey])])]

(***************************************************************************)
(* Specification of KeyPolicy: check_key_length applied to every           *)
(* (secret, algorithm name) pair of the bounded input sets.                *)
(***************************************************************************)
CheckKeyLengthCall(key, algorithm) ==
    /\ r' = [handler |-> "check_key_length", key |-> key, algorithm |-> algorithm,
             rv |-> check_key_length(key, algorithm)]
    /\ UNCHANGED <<dconf, sconf, phase, now, wire>>

NextKeyPolicy ==
    \E n \in 0..MaxKeyLen, c \in {1, 2}, algorithm \in AlgorithmNames :
        CheckKeyLengthCall(Secret(c, n), algorithm)

SpecKeyPolicy == Init /\ [][NextKeyPolicy]_vars

(***************************************************************************)
(* Specification of the token life cycle: a configuration, then logins     *)
(* that issue tokens and protected-resource requests that present the      *)
(* token last issued, while the clock advances.                            *)
(***************************************************************************)
MaxProviders == 1

IssueLines ==
    {Line(Location, "dir_signature_algorithm", a) : a \in {"HS256", "HS384", "HS512"}}
    \cup {Line(Location, "dir_signature_secret", Secret(1, n)) : n \in {32, 64}}
    \cup {Line(Location, "dir_exp_delay", v) : v \in {<<"0">>, <<"6", "0">>}}
    \cup {Line(Location, "dir_nbf_delay", <<"0">>), Line(Location, "dir_iss", "A"),
          Line(NULL, "dir_leeway", <<"0">>)}

PlainLogin ==
    [handler |-> Ptr("jwt-login-handler"), method |-> "POST", parse |-> OK,
     user |-> Ptr("alice"), password |-> Ptr("secret")]

LoginRequests ==
    {PlainLogin,
     [PlainLogin EXCEPT !.user = Ptr("bob")],
     [PlainLogin EXCEPT !.user = NULL],
     [PlainLogin EXCEPT !.password = NULL],
     [PlainLogin EXCEPT !.method = "GET"],
     [PlainLogin EXCEPT !.parse = HTTP_BAD_REQUEST],
     [PlainLogin EXCEPT !.handler = NULL]}

\* The request of a client presenting the token it was last given.
WireRequest ==
    [auth_type |-> Ptr("jwt"), auth_name |-> Ptr("realm"),
     authorization |-> Ptr([scheme |-> "Bearer ", token |-> Ptr(Deref(wire).token)])]

\* The requests of clients presenting a token this server did not issue,
\* signed with a 32-byte or a 64-byte secret.
ForeignRequests ==
    {Request(PlainRequest), Request([PlainRequest EXCEPT !.signkey = Secret(1, 64)])}

Next ==
    \/ \E cmd \in IssueLines : Directive(cmd)
    \/ \E arg \in {"file"} : Len(dconf.providers) < MaxProviders /\ add_authn_provider(arg)
    \/ ServerStart
    \/ Tick
    \/ \E req \in LoginRequests : Login(req)
    \/ wire # NULL /\ AuthnWithToken(WireRequest)
    \/ \E req \in ForeignRequests : AuthnWithToken(req)
    \/ RequestDone

Spec == Init /\ [][Next]_vars

(***************************************************************************)
(* Specification of the provider chain: any chain of at most MaxChain      *)
(* providers, then check_authn with the credentials the login handler can  *)
(* pass (it never passes NULL) and any verdict of each provider.           *)
(***************************************************************************)
MaxChain == 2

ProviderNames == {"file", "ldap"}

\* What check_password can return: the values of authn_status, and a value
\* outside the enumeration.
Verdicts == authn_status \cup {"<other>"}

Usernames == {Ptr(""), Ptr("alice")}
Passwords == {Ptr(""), Ptr("secret")}

CheckAuthnCall(username, password, verdicts) ==
    /\ phase = "serve"
    /\ r' = [handler |-> "check_authn", providers |-> dconf.providers,
             username |-> username, password |-> password, verdicts |-> verdicts,
             result |-> check_authn(dconf, username, password, verdicts)]
    /\ UNCHANGED <<dconf, sconf, phase, now, wire>>

NextAuthn ==
    \/ \E arg \in ProviderNames : Len(dconf.providers) < MaxChain /\ add_authn_provider(arg)
    \/ ServerStart
    \/ \E username \in Usernames, password \in Passwords,
          verdicts \in [1..Len(dconf.providers) -> Verdicts] :
          CheckAuthnCall(username, password, verdicts)

SpecAuthn == Init /\ [][NextAuthn]_vars

(***************************************************************************)
(* Specification of check_authn over its whole domain: as SpecAuthn, with  *)
(* a NULL username or password among the arguments.                        *)
(***************************************************************************)
NextAuthnAbsent ==
    \/ \E arg \in ProviderNames : Len(dconf.providers) < MaxChain /\ add_authn_provider(arg)
    \/ ServerStart
    \/ \E username \in Usernames \cup {NULL}, password \in Passwords \cup {NULL},
          verdicts \in [1..Len(dconf.providers) -> Verdicts] :
          CheckAuthnCall(username, password, verdicts)

SpecAuthnAbsent == Init /\ [][NextAuthnAbsent]_vars

(***************************************************************************)
(* Specification of TokenIssuer: any configuration written with            *)
(* TokenLines, then create_token for a user at the current time.           *)
(***************************************************************************)
TokenLines ==
    {Line(Location, "dir_signature_algorithm", a) : a \in {"HS256", "HS512", "RS256"}}
    \cup {Line(Location, "dir_signature_secret", Secret(1, n)) : n \in {32, 64}}
    \cup {Line(Location, "dir_exp_delay", v) : v \in {<<"0">>, <<"6", "0">>, <<"-", "1">>}}
    \cup {Line(Location, "dir_nbf_delay", <<"5">>)}
    \cup {Line(Location, i, "A") : i \in {"dir_iss", "dir_sub", "dir_aud"}}
    \cup {Line(NULL, i, "B") : i \in {"dir_iss", "dir_aud"}}

CreateTokenCall(username) ==
    /\ phase = "serve"
    /\ \E beyond \in BeyondFor(dconf, sconf) :
          r' = [handler |-> "create_token", username |-> username, t |-> now,
                created |-> create_token(dconf, sconf, username, now, beyond)]
    /\ UNCHANGED <<dconf, sconf, phase, now, wire>>

NextIssue ==
    \/ \E cmd \in TokenLines : Directive(cmd)
    \/ ServerStart
    \/ \E username \in {"alice", "bob"} : CreateTokenCall(username)
    \/ RequestDone
    \/ Tick

SpecIssue == Init /\ [][NextIssue]_vars

(***************************************************************************)
(* Specification of ConfigResolver: any configuration of at most           *)
(* MaxDirectives directives over both scopes, then get_config_value for    *)
(* every directive.                                                        *)
(***************************************************************************)
ResolveLines ==
    {Line(p, "dir_signature_algorithm", "HS256") : p \in {NULL, Location}}
    \cup {Line(p, "dir_signature_secret", Secret(1, 32)) : p \in {NULL, Location}}
    \cup {Line(p, i, v) : p \in {NULL, Location}, i \in {"dir_iss", "dir_sub", "dir_aud"},
                          v \in {"A", "B"}}
    \cup {Line(p, i, v) : p \in {NULL, Location}, i \in IntDirectives,
                          v \in {<<"0">>, <<"7">>, <<"-", "1">>}}

Resolve(directive) ==
    /\ phase = "serve"
    /\ r' = [handler |-> "get_config_value", directive |-> directive,
             value |-> get_config_value(dconf, sconf, directive)]
    /\ UNCHANGED <<dconf, sconf, phase, now, wire>>

NextResolve ==
    \/ \E cmd \in ResolveLines : UnderDirectiveBound /\ Directive(cmd)
    \/ ServerStart
    \/ \E directive \in jwt_directive : Resolve(directive)

SpecResolve == Init /\ [][NextResolve]_vars

(***************************************************************************)
(* Specification of TokenVerifier: a configuration, then protected-        *)
(* resource requests whose credentials depart from a plain valid request   *)
(* in at most MaxDeviations fields.                                        *)
(***************************************************************************)
\* The ways one field of a request can depart from the plain one.
Deviation ==
    {<<"auth_type", v>> : v \in {NULL, Ptr("Basic")}}
    \cup {<<"auth_name", NULL>>}
    \cup {<<"scheme", v>> : v \in {NULL, Ptr("Basic  ")}}
    \cup {<<"rest", FALSE>>}
    \cup {<<"form", "garbage">>}
    \cup {<<"alg", "none">>}
    \cup {<<"signkey", Secret(2, 32)>>}
    \cup {<<c, Ptr(v)>> : c \in {"iss", "aud", "sub"}, v \in {"A", "B"}}
    \cup {<<"exp", v>> : v \in {NULL, Ptr(Text(Epoch - 1)), Ptr(Text(Epoch))}}
    \cup {<<"nbf", Ptr(Text(v))>> : v \in {Epoch + 1, Epoch + 3}}
    \cup {<<"user", v>> : v \in {NULL, Ptr("bob")}}

RECURSIVE Within(_)
Within(n) ==
    IF n = 0 THEN {PlainRequest}
    ELSE Within(n - 1) \cup {[x EXCEPT ![d[1]] = d[2]] : x \in Within(n - 1), d \in Deviation}

Requests == {Request(x) : x \in Within(MaxDeviations)}

VerifyLines ==
    {Line(Location, "dir_signature_algorithm", "HS256"),
     Line(Location, "dir_signature_algorithm", "HS512"),
     Line(Location, "dir_signature_secret", Secret(1, 32)),
     Line(Location, "dir_iss", "A"), Line(Location, "dir_aud", "A"),
     Line(Location, "dir_sub", "A"),
     Line(Location, "dir_leeway", <<"2">>),
     Line(NULL, "dir_leeway", <<"0">>)}

NextVerify ==
    \/ \E cmd \in VerifyLines : Directive(cmd)
    \/ ServerStart
    \/ \E req \in Requests : AuthnWithToken(req)
    \/ RequestDone

SpecVerify == Init /\ [][NextVerify]_vars

\* The stored value of a directive in one scope, as the pointer
\* get_config_value hands out, and its is-set flag.
StoredValue(conf, directive) ==
    CASE directive = "dir_signature_algorithm" -> conf.signature_algorithm
      [] directive = "dir_signature_secret" -> conf.signature_secret
      [] directive = "dir_iss" -> conf.iss
      [] directive = "dir_sub" -> conf.sub
      [] directive = "dir_aud" -> conf.aud
      [] directive = "dir_exp_delay" -> Ptr(conf.exp_delay)
      [] directive = "dir_nbf_delay" -> Ptr(conf.nbf_delay)
      [] directive = "dir_leeway" -> Ptr(conf.leeway)

IsSet(conf, directive) ==
    CASE directive = "dir_signature_algorithm" -> conf.signature_algorithm_set # 0
      [] directive = "dir_signature_secret" -> conf.signature_secret_set # 0
      [] directive = "dir_iss" -> conf.iss_set # 0
      [] directive = "dir_sub" -> conf.sub_set # 0
      [] directive = "dir_aud" -> conf.aud_set # 0
      [] directive = "dir_exp_delay" -> conf.exp_delay_set # 0
      [] directive = "dir_nbf_delay" -> conf.nbf_delay_set # 0
      [] directive = "dir_leeway" -> conf.leeway_set # 0

\* The resolution rule of the data model: directory if set there, else server
\* if set there, else absent.
FlagRule(dc, sc, directive) ==
    IF IsSet(dc, directive) THEN StoredValue(dc, directive)
    ELSE IF IsSet(sc, directive) THEN StoredValue(sc, directive)
    ELSE NULL

(***************************************************************************)
(* C3: for every directive other than leeway, get_config_value returns the *)
(* directory value if the directory's is-set flag of that field is true,   *)
(* else the server value if the server's flag of that field is true, else  *)
(* NULL.                                                                   *)
(***************************************************************************)
C3_ResolvesByOwnFlag ==
    (r.handler = "get_config_value" /\ r.directive # "dir_leeway")
        => r.value = FlagRule(dconf, sconf, r.directive)

(***************************************************************************)
(* C10: check_key_length accepts (HS256, secret) exactly when the secret   *)
(* is 32 bytes long, (HS512, secret) exactly when it is 64 bytes long, and *)
(* rejects every algorithm name other than HS256, HS384 and HS512.         *)
(***************************************************************************)
C10_KeyPolicyTable ==
    r.handler = "check_key_length" =>
        /\ r.algorithm = "HS256" => (r.rv = OK <=> strlen(r.key) = 32)
        /\ r.algorithm = "HS512" => (r.rv = OK <=> strlen(r.key) = 64)
        /\ r.algorithm \notin {"HS256", "HS384", "HS512"} => r.rv # OK

\* The HS512 row at 63 bytes: rejected as an internal error.
C10_Witness ==
    /\ r.handler = "check_key_length"
    /\ r.algorithm = "HS512"
    /\ strlen(r.key) = 63
    /\ r.rv = HTTP_INTERNAL_SERVER_ERROR

(***************************************************************************)
(* Vocabulary of the claims about a handled protected-resource request.    *)
(***************************************************************************)
Authn == r.handler = "auth_jwt_authn_with_token"

\* token_check was called, and what it returned.
Checked == Authn /\ r.check # NULL
Check == Deref(r.check)

\* The token the request presented.
HasToken == Authn /\ r.req.authorization # NULL /\ Deref(r.req.authorization).token # NULL
Presented == Deref(Deref(r.req.authorization).token)

Ran(stage) == \E i \in 1..Len(Check.stages) : Check.stages[i] = stage
StoppedAt(stage) ==
    ~Check.fault /\ Check.rv # OK /\ Check.stages[Len(Check.stages)] = stage

AllStages ==
    <<"check_key_length", "jwt_decode", "alg_none", "config", "iss", "aud", "sub",
      "exp", "nbf">>

Accepted == Authn /\ ~r.fault /\ r.status = OK
RejectedWith(description) ==
    /\ ~r.fault
    /\ r.status = HTTP_UNAUTHORIZED
    /\ r.www_authenticate = Challenge("invalid_token", description)
    /\ r.user = NULL

LeewayUnconfigured == dconf.leeway_set = 0 /\ sconf.leeway_set = 0

(***************************************************************************)
(* C1: when Leeway is configured in neither scope, token_check runs to     *)
(* completion on a correctly signed token and applies a leeway of 0: it    *)
(* does not fault, and a token with exp is rejected as expired exactly     *)
(* when exp < now and one with nbf as too early exactly when nbf > now.    *)
(***************************************************************************)
C1_AbsentLeewayIsZero ==
    (Checked /\ LeewayUnconfigured /\ Ran("config")) =>
        /\ ~r.fault
        /\ Check.leeway = Ptr(0)
        /\ Presented.grants["exp"] # NULL =>
              (RejectedWith("Token expired") <=> atoi(Deref(Presented.grants["exp"])) < now)

(***************************************************************************)
(* C4: at the expiration stage a token without exp is rejected (401,       *)
(* invalid_token, expiration missing); a token with exp is rejected as     *)
(* expired exactly when exp + leeway < now: exp = now - 1 is rejected with *)
(* leeway 0 and passes the stage with leeway 2.                            *)
(***************************************************************************)
C4_ExpirationStage ==
    (Checked /\ Ran("exp")) =>
        LET exp_str == Presented.grants["exp"]
            leeway == Deref(Check.leeway)
        IN  /\ exp_str = NULL =>
                  StoppedAt("exp") /\ RejectedWith("Expiration is missing in token")
            /\ exp_str # NULL =>
                  /\ (StoppedAt("exp") /\ RejectedWith("Token expired"))
                        <=> atoi(Deref(exp_str)) + leeway < now
                  /\ StoppedAt("exp") <=> atoi(Deref(exp_str)) + leeway < now
            /\ (exp_str = Ptr(Text(now - 1)) /\ leeway = 0) => RejectedWith("Token expired")
            /\ (exp_str = Ptr(Text(now - 1)) /\ leeway = 2) => ~StoppedAt("exp")
            /\ (exp_str = Ptr(Text(now)) /\ leeway = 0) => ~StoppedAt("exp")

\* exp = now - 1 under a configured leeway of 2 passes the stage.
C4_Witness ==
    /\ Checked
    /\ Ran("exp")
    /\ get_config_value(dconf, sconf, "dir_leeway") = Ptr(2)
    /\ Presented.grants["exp"] = Ptr(Text(now - 1))
    /\ Ran("nbf")

(***************************************************************************)
(* C5: at the not-before stage a token without nbf is never rejected; a    *)
(* token with nbf is rejected exactly when nbf - leeway > now: nbf = now + *)
(* 1 is rejected with leeway 0 and accepted with leeway 2.                 *)
(***************************************************************************)
C5_NotBeforeStage ==
    (Checked /\ Ran("nbf")) =>
        LET nbf_str == Presented.grants["nbf"]
            leeway == Deref(Check.leeway)
            rejected ==
                /\ StoppedAt("nbf")
                /\ RejectedWith("Token can't be processed now due to nbf field")
        IN  /\ nbf_str = NULL => ~StoppedAt("nbf") /\ Check.rv = OK
            /\ nbf_str # NULL =>
                  /\ rejected <=> atoi(Deref(nbf_str)) - leeway > now
                  /\ StoppedAt("nbf") <=> rejected
            /\ (nbf_str = Ptr(Text(now + 1)) /\ leeway = 0) => rejected
            /\ (nbf_str = Ptr(Text(now + 1)) /\ leeway = 2) => Check.rv = OK

\* nbf = now + 1 under a configured leeway of 2 is accepted.
C5_Witness ==
    /\ Checked
    /\ Ran("nbf")
    /\ get_config_value(dconf, sconf, "dir_leeway") = Ptr(2)
    /\ Presented.grants["nbf"] = Ptr(Text(now + 1))
    /\ Accepted

(***************************************************************************)
(* C6: a token whose header declares the "none" algorithm is never         *)
(* accepted, whatever its claims and the configuration: the request is not *)
(* authenticated and r->user is not set from it; when the decode step      *)
(* reports success the none-algorithm check rejects it with 401.           *)
(***************************************************************************)
C6_NoneNeverAccepted ==
    (HasToken /\ Presented.form = "jwt" /\ Presented.alg = "none") =>
        /\ ~Accepted
        /\ r.user = NULL
        /\ (Checked /\ Ran("alg_none")) =>
              StoppedAt("alg_none") /\ RejectedWith("Token is malformed")

\* A none token that libjwt decoded successfully is rejected by the check.
C6_Witness ==
    /\ HasToken
    /\ Presented.form = "jwt"
    /\ Presented.alg = "none"
    /\ Checked
    /\ Check.jwt # NULL
    /\ StoppedAt("alg_none")
    /\ r.status = HTTP_UNAUTHORIZED

(***************************************************************************)
(* C7: for each of iss, aud and sub, token_check rejects at that stage     *)
(* exactly when the directive resolves, the token carries the claim and    *)
(* the two strings differ; an absent configured value or an absent claim   *)
(* passes the stage.                                                       *)
(***************************************************************************)
DirectiveOf(claim) ==
    CASE claim = "iss" -> "dir_iss" [] claim = "aud" -> "dir_aud" [] claim = "sub" -> "dir_sub"

DescriptionOf(claim) ==
    CASE claim = "iss" -> "Issuer is not valid"
      [] claim = "aud" -> "Audience is not valid"
      [] claim = "sub" -> "Subject is not valid"

C7_ClaimEqualityStages ==
    Checked => \A claim \in {"iss", "aud", "sub"} :
        Ran(claim) =>
            LET config == get_config_value(dconf, sconf, DirectiveOf(claim))
                to_check == Presented.grants[claim]
                differ == config # NULL /\ to_check # NULL /\ Deref(config) # Deref(to_check)
            IN  /\ StoppedAt(claim) <=> differ
                /\ StoppedAt(claim) => RejectedWith(DescriptionOf(claim))
                /\ (config = Ptr("A") /\ to_check = Ptr("B")) => StoppedAt(claim)
                /\ to_check = NULL => ~StoppedAt(claim)

\* Configured aud "A" against a token whose iss matches and whose aud is "B".
C7_Witness ==
    /\ Checked
    /\ get_config_value(dconf, sconf, "dir_iss") = Ptr("A")
    /\ get_config_value(dconf, sconf, "dir_aud") = Ptr("A")
    /\ Presented.form = "jwt"
    /\ Presented.grants["iss"] = Ptr("A")
    /\ Presented.grants["aud"] = Ptr("B")
    /\ StoppedAt("aud")
    /\ RejectedWith("Audience is not valid")

(***************************************************************************)
(* C8: a protected-resource request is authenticated only if the token     *)
(* passed every token_check stage and carries a user claim, and r->user is *)
(* then exactly that claim; a token passing every stage without a user     *)
(* claim is rejected with 401 invalid_token (username not in token).       *)
(***************************************************************************)
C8_IdentityIsUserClaim ==
    Authn =>
        /\ Accepted =>
              /\ Checked
              /\ ~Check.fault
              /\ Check.rv = OK
              /\ Check.stages = AllStages
              /\ Presented.grants["user"] # NULL
              /\ r.user = Presented.grants["user"]
        /\ (Checked /\ ~Check.fault /\ Check.rv = OK /\ Presented.grants["user"] = NULL) =>
              RejectedWith("Username was not in token")
        /\ ~Accepted => r.user = NULL

\* A token passing every stage without a user claim.
C8_Witness ==
    /\ Checked
    /\ ~Check.fault
    /\ Check.rv = OK
    /\ Presented.grants["user"] = NULL
    /\ r.status = HTTP_UNAUTHORIZED
    /\ get_config_value(dconf, sconf, "dir_leeway") # NULL

(***************************************************************************)
(* Vocabulary of the claims about a handled login request.                 *)
(***************************************************************************)
LoggedIn == r.handler = "auth_jwt_login_handler"
Issued == LoggedIn /\ ~r.fault /\ r.status = OK /\ r.body # NULL

ExpDelayUnconfigured == dconf.exp_delay_set = 0 /\ sconf.exp_delay_set = 0

(***************************************************************************)
(* C2: when ExpDelay is configured in neither scope the directory default  *)
(* of 3600 seconds applies at issuance: the token create_token produces    *)
(* carries exp = now + 3600.                                               *)
(***************************************************************************)
C2_DefaultExpDelay ==
    (Issued /\ ExpDelayUnconfigured) =>
        Deref(r.body).grants["exp"] = Ptr(Text(now + 3600))

(***************************************************************************)
(* C9: a token issued by create_token under a configuration with exp_delay *)
(* set to a value >= 0 and nbf_delay 0, and verified at the time of issue  *)
(* under the same configuration, is accepted and yields exactly the        *)
(* identity it was issued for.                                             *)
(***************************************************************************)
C9_RoundTrip ==
    LET exp_delay_ptr == get_config_value(dconf, sconf, "dir_exp_delay")
        nbf_delay_ptr == get_config_value(dconf, sconf, "dir_nbf_delay")
    IN  (/\ Authn
         /\ wire # NULL
         /\ HasToken
         /\ Presented = Deref(wire).token
         /\ Deref(wire).at = now
         /\ exp_delay_ptr # NULL
         /\ Deref(exp_delay_ptr) >= 0
         /\ nbf_delay_ptr # NULL => Deref(nbf_delay_ptr) = 0)
        => (Accepted /\ r.user = Ptr(Deref(wire).user))

(***************************************************************************)
(* C11: in every issuance and every verification whose algorithm resolves, *)
(* check_key_length is the first call and has passed on the resolved       *)
(* secret and algorithm before any signing or decoding call; when it does  *)
(* not pass, no signing or decoding call is made in that request and the   *)
(* result is 500.  Each request makes the check again: the trace of every  *)
(* handled request starts with it.                                         *)
(***************************************************************************)
KeyPolicyPasses ==
    LET signature_secret == get_config_value(dconf, sconf, "dir_signature_secret")
        signature_algorithm == get_config_value(dconf, sconf, "dir_signature_algorithm")
    IN  /\ signature_secret # NULL
        /\ signature_algorithm # NULL
        /\ check_key_length(Deref(signature_secret), Deref(signature_algorithm)) = OK

IssuanceCalls == Deref(r.created).calls
Signed ==
    \E i \in 1..Len(IssuanceCalls) : IssuanceCalls[i] \in {"token_set_alg", "token_encode_str"}

C11_KeyCheckPrecedes ==
    /\ (Checked /\ get_config_value(dconf, sconf, "dir_signature_algorithm") # NULL) =>
          /\ Check.stages[1] = "check_key_length"
          /\ Ran("jwt_decode") => KeyPolicyPasses
          /\ ~KeyPolicyPasses =>
                /\ Check.stages = <<"check_key_length">>
                /\ ~r.fault
                /\ r.status = HTTP_INTERNAL_SERVER_ERROR
                /\ r.user = NULL
    /\ (LoggedIn /\ r.created # NULL) =>
          /\ Signed => (IssuanceCalls[1] = "check_key_length" /\ KeyPolicyPasses)
          /\ ~KeyPolicyPasses =>
                /\ ~Signed
                /\ r.status = HTTP_INTERNAL_SERVER_ERROR
                /\ r.body = NULL

\* A correctly formed token presented under HS512 with a 32-byte secret:
\* the check fails, nothing is decoded, the result is 500.
C11_Witness ==
    /\ Checked
    /\ get_config_value(dconf, sconf, "dir_signature_algorithm") = Ptr("HS512")
    /\ strlen(Deref(get_config_value(dconf, sconf, "dir_signature_secret"))) = 32
    /\ Presented.form = "jwt"
    /\ ~Ran("jwt_decode")
    /\ r.status = HTTP_INTERNAL_SERVER_ERROR

(***************************************************************************)
(* Vocabulary of the claims about a call of check_authn.                   *)
(***************************************************************************)
AuthnCall == r.handler = "check_authn"

NonEmpty(p) == p # NULL /\ Deref(p) # ""

\* The positions of the providers that answer something other than
\* AUTH_USER_NOT_FOUND, and the first of them.
Answering(verdicts) == {i \in DOMAIN verdicts : verdicts[i] # "AUTH_USER_NOT_FOUND"}
FirstAnswering(verdicts) ==
    CHOOSE i \in Answering(verdicts) : \A j \in Answering(verdicts) : i <= j

(***************************************************************************)
(* C12: with non-empty credentials, the verdict of check_authn is          *)
(* AUTH_GENERAL_ERROR for an empty provider list; otherwise it is the      *)
(* verdict of the first provider in list order that answers something      *)
(* other than AUTH_USER_NOT_FOUND, and AUTH_USER_NOT_FOUND when every       *)
(* provider answers that: [not found, granted] yields granted.             *)
(***************************************************************************)
C12_ChainVerdict ==
    (AuthnCall /\ NonEmpty(r.username) /\ NonEmpty(r.password)) =>
        /\ r.providers = <<>> => r.result.authn_result = "AUTH_GENERAL_ERROR"
        /\ (r.providers # <<>> /\ Answering(r.verdicts) = {}) =>
              r.result.authn_result = "AUTH_USER_NOT_FOUND"
        /\ (r.providers # <<>> /\ Answering(r.verdicts) # {}) =>
              r.result.authn_result = r.verdicts[FirstAnswering(r.verdicts)]
        /\ r.verdicts = <<"AUTH_USER_NOT_FOUND", "AUTH_GRANTED">> =>
              r.result.authn_result = "AUTH_GRANTED"

\* [P1 -> not found, P2 -> granted] with non-empty credentials yields granted.
C12_Witness ==
    /\ AuthnCall
    /\ NonEmpty(r.username)
    /\ NonEmpty(r.password)
    /\ r.providers = <<"file", "ldap">>
    /\ r.verdicts = <<"AUTH_USER_NOT_FOUND", "AUTH_GRANTED">>
    /\ r.result.authn_result = "AUTH_GRANTED"

(***************************************************************************)
(* C13: the providers whose check_password is called within one            *)
(* check_authn are the head of the configured list, in list order, each    *)
(* position once, up to and including the first that answers something     *)
(* other than AUTH_USER_NOT_FOUND (the whole list if none does): no        *)
(* provider is called after such an answer, and the loop makes at most one *)
(* pass over the list.                                                     *)
(***************************************************************************)
C13_InvocationOrder ==
    AuthnCall =>
        LET called == Len(r.result.calls)
        IN  /\ called <= Len(r.providers)
            /\ r.result.calls = SubSeq(r.providers, 1, called)
            /\ \A i \in 1..(called - 1) : r.verdicts[i] = "AUTH_USER_NOT_FOUND"
            /\ Answering(r.verdicts) # {} => called = FirstAnswering(r.verdicts)
            /\ Answering(r.verdicts) = {} => called = Len(r.providers)
            /\ (r.providers # <<>> /\ r.verdicts[1] = "AUTH_DENIED") =>
                  r.result.calls = <<r.providers[1]>>

\* [P1 -> denied, P2]: P2 is not consulted.
C13_Witness ==
    /\ AuthnCall
    /\ r.providers = <<"file", "ldap">>
    /\ r.verdicts[1] = "AUTH_DENIED"
    /\ r.result.calls = <<"file">>
    /\ r.result.authn_result = "AUTH_DENIED"

(***************************************************************************)
(* C14: with a non-empty provider list, check_authn given an empty         *)
(* username or an empty password yields AUTH_USER_NOT_FOUND, returns 401   *)
(* and calls no provider's check_password.                                 *)
(***************************************************************************)
C14_EmptyCredentialsStop ==
    (AuthnCall /\ r.providers # <<>> /\ (~NonEmpty(r.username) \/ ~NonEmpty(r.password))) =>
        /\ r.result.authn_result = "AUTH_USER_NOT_FOUND"
        /\ r.result.rv = HTTP_UNAUTHORIZED
        /\ r.result.calls = <<>>

(***************************************************************************)
(* C15: check_authn returns OK for AUTH_GRANTED, 401 for AUTH_DENIED, 401  *)
(* for AUTH_USER_NOT_FOUND, and 500 for AUTH_GENERAL_ERROR and for any     *)
(* other verdict value.                                                    *)
(***************************************************************************)
C15_VerdictMapping ==
    AuthnCall =>
        LET authn_result == r.result.authn_result
        IN  /\ authn_result = "AUTH_GRANTED" => r.result.rv = OK
            /\ authn_result = "AUTH_DENIED" => r.result.rv = HTTP_UNAUTHORIZED
            /\ authn_result = "AUTH_USER_NOT_FOUND" => r.result.rv = HTTP_UNAUTHORIZED
            /\ authn_result \notin {"AUTH_GRANTED", "AUTH_DENIED", "AUTH_USER_NOT_FOUND"} =>
                  r.result.rv = HTTP_INTERNAL_SERVER_ERROR

\* A provider answering a value outside authn_status: 500.
C15_Witness ==
    /\ AuthnCall
    /\ r.result.authn_result \notin authn_status
    /\ r.result.calls # <<>>
    /\ r.result.rv = HTTP_INTERNAL_SERVER_ERROR

(***************************************************************************)
(* Vocabulary of the claims about a call of create_token.                  *)
(***************************************************************************)
IssueCall == r.handler = "create_token"
Returned == Deref(r.created.token_str)

(***************************************************************************)
(* C16: every token create_token returns with OK carries iat = now and     *)
(* user = the username it was called with; exp = now + exp_delay exactly   *)
(* when exp_delay resolves and is >= 0, nbf = now + nbf_delay exactly when *)
(* nbf_delay resolves and is >= 0; each of iss, sub and aud exactly when   *)
(* get_config_value resolves that directive, with the resolved value; and  *)
(* no other claim.                                                         *)
(***************************************************************************)
C16_IssuedClaims ==
    (IssueCall /\ r.created.rv = OK) =>
        LET exp_delay_ptr == get_config_value(dconf, sconf, "dir_exp_delay")
            nbf_delay_ptr == get_config_value(dconf, sconf, "dir_nbf_delay")
            grants == Returned.grants
        IN  /\ r.created.token_str # NULL
            /\ DOMAIN grants = {"iat", "user", "exp", "nbf", "iss", "sub", "aud"}
            /\ grants["iat"] = Ptr(Text(r.t))
            /\ grants["user"] = Ptr(r.username)
            /\ grants["exp"] =
                  IF exp_delay_ptr # NULL /\ Deref(exp_delay_ptr) >= 0
                  THEN Ptr(Text(r.t + Deref(exp_delay_ptr))) ELSE NULL
            /\ grants["nbf"] =
                  IF nbf_delay_ptr # NULL /\ Deref(nbf_delay_ptr) >= 0
                  THEN Ptr(Text(r.t + Deref(nbf_delay_ptr))) ELSE NULL
            /\ \A claim \in {"iss", "sub", "aud"} :
                  grants[claim] = get_config_value(dconf, sconf, DirectiveOf(claim))

\* A token issued a second after start under ExpDelay 0, NbfDelay 5, a
\* directory sub and a server aud made visible by a server iss.
C16_Witness ==
    /\ IssueCall
    /\ r.created.rv = OK
    /\ r.t = Epoch + 1
    /\ Returned.grants["exp"] = Ptr(Text(Epoch + 1))
    /\ Returned.grants["nbf"] = Ptr(Text(Epoch + 6))
    /\ Returned.grants["sub"] = Ptr("A")
    /\ Returned.grants["aud"] = Ptr("B")
    /\ Returned.grants["user"] = Ptr("bob")

(***************************************************************************)
(* C17: create_token returns 500 and no token whenever the secret does not *)
(* resolve, the algorithm does not resolve, check_key_length rejects the   *)
(* secret for the algorithm, or the algorithm name is not one of HS256,    *)
(* HS384, HS512; in every other case it returns OK with a token.           *)
(***************************************************************************)
C17_IssuanceFailures ==
    IssueCall =>
        LET signature_secret == get_config_value(dconf, sconf, "dir_signature_secret")
            signature_algorithm == get_config_value(dconf, sconf, "dir_signature_algorithm")
            fails ==
                \/ signature_secret = NULL
                \/ signature_algorithm = NULL
                \/ Deref(signature_algorithm) \notin {"HS256", "HS384", "HS512"}
                \/ check_key_length(Deref(signature_secret), Deref(signature_algorithm)) # OK
        IN  /\ fails => (r.created.rv = HTTP_INTERNAL_SERVER_ERROR /\ r.created.token_str = NULL)
            /\ ~fails => (r.created.rv = OK /\ r.created.token_str # NULL)

\* HS256 with a 64-byte secret: 500 and no token.
C17_Witness ==
    /\ IssueCall
    /\ get_config_value(dconf, sconf, "dir_signature_algorithm") = Ptr("HS256")
    /\ get_config_value(dconf, sconf, "dir_signature_secret") = Ptr(Secret(1, 64))
    /\ r.created.rv = HTTP_INTERNAL_SERVER_ERROR
    /\ r.created.token_str = NULL

(***************************************************************************)
(* C18: a request for a jwt-protected path with a realm, under a secret    *)
(* that resolves: an absent Authorization header gives 401 with a          *)
(* challenge naming the realm; a header that is not "Bearer " followed by  *)
(* a non-empty token gives 400 with an invalid_request challenge; a        *)
(* well-formed Bearer header, and no other, reaches token_check.           *)
(***************************************************************************)
Protected == Authn /\ r.req.auth_type = Ptr("jwt") /\ r.req.auth_name # NULL

HeaderHandling ==
    LET header == r.req.authorization
        well_formed ==
            header # NULL /\ Deref(header).token # NULL /\ Deref(header).scheme = "Bearer "
    IN  /\ header = NULL =>
              /\ r.status = HTTP_UNAUTHORIZED
              /\ r.www_authenticate =
                    Ptr([realm |-> Deref(r.req.auth_name), error |-> NULL,
                         error_description |-> NULL])
              /\ r.user = NULL
        /\ (header # NULL /\ ~well_formed) =>
              /\ r.status = HTTP_BAD_REQUEST
              /\ r.www_authenticate # NULL
              /\ Deref(r.www_authenticate).realm = Deref(r.req.auth_name)
              /\ Deref(r.www_authenticate).error = Ptr("invalid_request")
              /\ r.user = NULL
        /\ Checked <=> well_formed

C18_HeaderHandling ==
    (Protected /\ get_config_value(dconf, sconf, "dir_signature_secret") # NULL) =>
        HeaderHandling

\* "Basic  " followed by a token, under a configured secret: 400.
C18_Witness ==
    /\ Protected
    /\ get_config_value(dconf, sconf, "dir_signature_secret") # NULL
    /\ r.req.authorization # NULL
    /\ Deref(r.req.authorization).scheme = "Basic  "
    /\ Deref(r.req.authorization).token # NULL
    /\ r.status = HTTP_BAD_REQUEST

\* The same without the condition on the secret.
C18_HeaderHandling_AnySecret == Protected => HeaderHandling

(***************************************************************************)
(* C19: the directive handler given the text of a negative number for      *)
(* ExpDelay or NbfDelay accepts it and stores that number in the scope it  *)
(* was written in, with the is-set flag true.                              *)
(***************************************************************************)
Written == IF r.path = NULL THEN sconf ELSE dconf

C19_NegativeDelayStored ==
    (/\ r.handler = "set_jwt_int_param"
     /\ r.info \in {"dir_exp_delay", "dir_nbf_delay"}
     /\ r.value = <<"-", "1">>)
    => /\ r.error = NULL
       /\ IsSet(Written, r.info)
       /\ StoredValue(Written, r.info) = Ptr(-1)

(***************************************************************************)
(* C20: verification runs its stages in the order key-length check,        *)
(* decode/signature, none-algorithm, issuer, audience, subject,            *)
(* expiration, not-before, user claim.  The status and error_description   *)
(* of a rejected token are those of the earliest stage it fails in that    *)
(* order, no stage runs after the one that rejects, a rejected request     *)
(* sets no identity, and a token is accepted only if it fails no stage.    *)
(***************************************************************************)
\* The stage a token fails first, in the order above, under the resolved
\* configuration and the leeway token_check holds; "none" if it fails none.
EarliestFailure ==
    LET signature_secret == Deref(get_config_value(dconf, sconf, "dir_signature_secret"))
        signature_algorithm == Deref(get_config_value(dconf, sconf, "dir_signature_algorithm"))
        differs(claim) ==
            LET config == get_config_value(dconf, sconf, DirectiveOf(claim))
                to_check == Presented.grants[claim]
            IN  config # NULL /\ to_check # NULL /\ Deref(config) # Deref(to_check)
        leeway == Deref(Check.leeway)
    IN  IF check_key_length(signature_secret, signature_algorithm) # OK THEN "check_key_length"
        ELSE IF Presented.form # "jwt" THEN "jwt_decode"
        ELSE IF Presented.alg = "none" THEN "alg_none"
        ELSE IF Presented.signkey # signature_secret THEN "jwt_decode"
        ELSE IF differs("iss") THEN "iss"
        ELSE IF differs("aud") THEN "aud"
        ELSE IF differs("sub") THEN "sub"
        ELSE IF Presented.grants["exp"] = NULL THEN "exp missing"
        ELSE IF atoi(Deref(Presented.grants["exp"])) + leeway < now THEN "exp"
        ELSE IF Presented.grants["nbf"] # NULL
                /\ atoi(Deref(Presented.grants["nbf"])) - leeway > now THEN "nbf"
        ELSE IF Presented.grants["user"] = NULL THEN "user"
        ELSE "none"

StageDescription(stage) ==
    CASE stage \in {"jwt_decode", "alg_none"} -> "Token is malformed"
      [] stage \in {"iss", "aud", "sub"} -> DescriptionOf(stage)
      [] stage = "exp missing" -> "Expiration is missing in token"
      [] stage = "exp" -> "Token expired"
      [] stage = "nbf" -> "Token can't be processed now due to nbf field"
      [] stage = "user" -> "Username was not in token"

IsPrefix(s, t) == Len(s) <= Len(t) /\ s = SubSeq(t, 1, Len(s))

C20_LinearPipeline ==
    Checked =>
        /\ IsPrefix(Check.stages, AllStages)
        /\ ~Accepted => r.user = NULL
        /\ (~r.fault /\ Check.rv # OK) => r.status = Check.rv
        /\ (~r.fault /\ get_config_value(dconf, sconf, "dir_signature_algorithm") # NULL) =>
              LET failed == EarliestFailure
              IN  /\ failed = "check_key_length" =>
                        /\ r.status = HTTP_INTERNAL_SERVER_ERROR
                        /\ Check.stages = <<"check_key_length">>
                  /\ failed \notin {"check_key_length", "none"} =>
                        RejectedWith(StageDescription(failed))
                  /\ failed \in {"jwt_decode", "iss", "aud", "sub", "exp", "nbf"} =>
                        StoppedAt(failed)
                  /\ failed = "alg_none" => (StoppedAt("jwt_decode") \/ StoppedAt("alg_none"))
                  /\ failed = "exp missing" => StoppedAt("exp")
                  /\ failed = "user" => (Check.rv = OK /\ Check.stages = AllStages)
                  /\ Accepted <=> failed = "none"
                  /\ Accepted => (Check.stages = AllStages /\ r.user = Presented.grants["user"])

\* A token with a wrong issuer and no exp: rejected for the issuer, at the
\* issuer stage.
C20_Witness ==
    /\ Checked
    /\ ~r.fault
    /\ get_config_value(dconf, sconf, "dir_iss") = Ptr("A")
    /\ Presented.form = "jwt"
    /\ Presented.grants["iss"] = Ptr("B")
    /\ Presented.grants["exp"] = NULL
    /\ StoppedAt("iss")
    /\ RejectedWith("Issuer is not valid")

(***************************************************************************)
(* C21: within one login request create_token is called only after         *)
(* check_authn returned OK for the user and password of that request; the  *)
(* token written to the response carries that user as its user claim (the  *)
(* form's user field whenever the form has one); after a denied, not-found *)
(* or general-error verdict no token is created and none is written.       *)
(***************************************************************************)
C21_TokenOnlyAfterGrant ==
    LoggedIn =>
        /\ r.created # NULL =>
              /\ r.authn # NULL
              /\ Deref(r.authn).rv = OK
              /\ Deref(r.authn).authn_result = "AUTH_GRANTED"
        /\ r.body # NULL =>
              /\ r.created # NULL
              /\ Deref(r.created).rv = OK
              /\ r.body = Deref(r.created).token_str
              /\ Deref(r.body).grants["user"] = r.user
              /\ r.req.user # NULL => Deref(r.body).grants["user"] = r.req.user
        /\ (r.authn # NULL /\ Deref(r.authn).authn_result # "AUTH_GRANTED") =>
              /\ r.created = NULL
              /\ r.body = NULL
              /\ r.status = Deref(r.authn).rv
              /\ r.status # OK
        /\ r.authn = NULL => (r.created = NULL /\ r.body = NULL)

\* A login the provider denies: 401, create_token not called, no token.
C21_Witness ==
    /\ LoggedIn
    /\ r.authn # NULL
    /\ Deref(r.authn).authn_result = "AUTH_DENIED"
    /\ Deref(r.authn).calls = <<"file">>
    /\ get_config_value(dconf, sconf, "dir_signature_algorithm") = Ptr("HS256")
    /\ get_config_value(dconf, sconf, "dir_signature_secret") = Ptr(Secret(1, 32))
    /\ r.status = HTTP_UNAUTHORIZED
    /\ r.created = NULL
    /\ r.body = NULL

C23_HS384Coherent ==
    (Issued /\ get_config_value(dconf, sconf, "dir_signature_algorithm") = Ptr("HS384")) =>
        /\ strlen(Deref(get_config_value(dconf, sconf, "dir_signature_secret"))) = 48
        /\ check_key_length(Secret(1, 48), "HS384") = OK
        /\ Deref(r.body).alg = "HS384"

(***************************************************************************)
(* C24: get_config_value resolves leeway by the directory scope's stored   *)
(* value, not its is-set flag: a non-zero directory value is returned      *)
(* whatever the server scope holds; with the directory value 0, set        *)
(* explicitly or not, the server's value is returned if the server's flag  *)
(* is set, and NULL otherwise.                                             *)
(***************************************************************************)
C24_LeewayByValue ==
    (r.handler = "get_config_value" /\ r.directive = "dir_leeway") =>
        /\ dconf.leeway # 0 => r.value = Ptr(dconf.leeway)
        /\ (dconf.leeway = 0 /\ sconf.leeway_set # 0) => r.value = Ptr(sconf.leeway)
        /\ (dconf.leeway = 0 /\ sconf.leeway_set = 0) => r.value = NULL

\* Leeway 0 written in the directory, 7 at server level: 7 is returned.
C24_Witness ==
    /\ r.handler = "get_config_value"
    /\ r.directive = "dir_leeway"
    /\ dconf.leeway_set = 1
    /\ dconf.leeway = 0
    /\ sconf.leeway_set = 1
    /\ sconf.leeway = 7
    /\ r.value = Ptr(7)

(***************************************************************************)
(* C25: what get_config_value returns for a directive depends only on that *)
(* directive's stored value and is-set flag in the two scopes: a second    *)
(* configuration that differs from the current one by one more line of     *)
(* another directive, in either scope, resolves the directive to the same  *)
(* value.                                                                  *)
(***************************************************************************)
\* The two scopes after the handler of cmd has run on them.
After(dc, sc, cmd) ==
    IF cmd.info \in StringDirectives
    THEN IF cmd.path = NULL
         THEN <<dc, SetParamIn(sc, cmd.info, cmd.value)>>
         ELSE <<SetParamIn(dc, cmd.info, cmd.value), sc>>
    ELSE IF ~AllDigits(cmd.value) THEN <<dc, sc>>
    ELSE IF cmd.path = NULL
         THEN <<dc, SetIntParamIn(sc, cmd.info, cmd.value)>>
         ELSE <<SetIntParamIn(dc, cmd.info, cmd.value), sc>>

C25_DirectiveIndependence ==
    r.handler = "get_config_value" =>
        \A cmd \in ResolveLines :
            cmd.info # r.directive =>
                LET other == After(dconf, sconf, cmd)
                IN  /\ StoredValue(other[1], r.directive) = StoredValue(dconf, r.directive)
                    /\ IsSet(other[1], r.directive) = IsSet(dconf, r.directive)
                    /\ StoredValue(other[2], r.directive) = StoredValue(sconf, r.directive)
                    /\ IsSet(other[2], r.directive) = IsSet(sconf, r.directive)
                    /\ get_config_value(other[1], other[2], r.directive) = r.value

(***************************************************************************)
(* C26: when the secret resolves and the signature algorithm resolves in   *)
(* neither scope, a protected-resource request with a well-formed Bearer   *)
(* header ends with 500: check_key_length is not given the absent          *)
(* algorithm, the decoder is not reached, the request is not               *)
(* authenticated.                                                          *)
(***************************************************************************)
C26_AbsentAlgorithmIsError ==
    (/\ Protected
     /\ HasToken
     /\ Deref(r.req.authorization).scheme = "Bearer "
     /\ get_config_value(dconf, sconf, "dir_signature_secret") # NULL
     /\ get_config_value(dconf, sconf, "dir_signature_algorithm") = NULL)
    => /\ ~r.fault
       /\ r.status = HTTP_INTERNAL_SERVER_ERROR
       /\ r.user = NULL
       /\ Checked => (~Ran("check_key_length") /\ ~Ran("jwt_decode"))

=============================================================================
